---- MODULE Spec2Model ----
(***************************************************************************)
(* Moving horizon estimator of do-mpc (do_mpc/estimator/_mhe.py): the      *)
(* configuration flags, the validity gate, finalisation (prepare_nlp,      *)
(* create_nlp, setup) and the rolling step make_step, modelled as a state  *)
(* machine over one estimator instance.                                    *)
(*                                                                         *)
(* Numeric vectors are modelled by integers. The model has one state, one  *)
(* input, one algebraic state and one measurement (n_x = n_u = n_z = n_y = *)
(* 1); the time-varying-parameter channel holds n_tvp in {0,1} values, and *)
(* the model declares the two parameters "a" and "b", of which p_est_list  *)
(* selects the estimated ones.                                             *)
(***************************************************************************)
EXTENDS Integers, Sequences, FiniteSets, TLC

\* ------------------------------------------------------------------ bounds
\* Largest horizon length n_horizon the estimator is constructed with.
MaxHorizon == 3
\* Largest number of measurements make_step may log in one behaviour.
MaxSteps == 2
\* Largest number of collocation points of the layouts that are assembled.
MaxColl == 2
MaxCosts == 2

\* ------------------------------------------------------- program constants
\* np.inf of the default bound structures, as an integer above every value.
Inf == 9999
\* Measurement dimension model.n_y of the modelled process model.
n_y == 1
\* settings.t_step, the fixed step the anchor time advances by.
t_step == 1

\* Names of the model's parameters, in the order of model._p.keys().
p_keys == <<"a", "b">>

\* Groups of scalar bounds a caller can set through the bounds interface.
BoundGroups == {"x", "u", "z", "p_est"}

\* ----------------------------------------------------------------- state
VARIABLES
    n_horizon,      \* settings.n_horizon
    n_coll,         \* number of collocation points of the discretisation
    n_tvp,          \* size of model._tvp
    p_est_list,     \* names passed to the constructor
    scaling,        \* _x_scaling, _u_scaling, _z_scaling, _p_est_scaling
    symvar_type,    \* model.symvar_type: the symbolic type of the expressions
    meas_from_data, \* settings.meas_from_data
    single_slack,   \* settings.nl_cons_single_slack
    cons_check_colloc_points,     \* settings.cons_check_colloc_points
    nl_cons_check_colloc_points,  \* settings.nl_cons_check_colloc_points
    flags,          \* self.flags
    bnd,            \* _x_lb/_x_ub, _u_lb/_u_ub, _z_lb/_z_ub, _p_est_lb/_p_est_ub
    tvp_fun,        \* registered time-varying-parameter supplier
    p_fun,          \* registered fixed-parameter supplier
    y_fun,          \* registered measurement-window supplier
    y_template,     \* template captured by the default measurement supplier
    cost,           \* stage_cost_fun and arrival_cost_fun
    nlp,            \* lb_opt_x, ub_opt_x, the constraint lists and the objective of the built NLP
    opt_x_num,      \* numeric decision buffer (scaled)
    opt_p_num,      \* numeric parameter buffer
    opt_aux_num,    \* auxiliary values of the last solve
    x0, u0, z0, p_est0, t0,  \* holders of the current estimate and time
    data,           \* historical log (do_mpc.data.Data)
    warnings,       \* number of warnings make_step has emitted
    err,            \* error raised by the last call: its message and the entries it names
    ret             \* value returned by the last completed make_step

vars == <<n_horizon, n_coll, n_tvp, p_est_list, scaling, symvar_type, meas_from_data,
          single_slack, cons_check_colloc_points, nl_cons_check_colloc_points, flags,
          bnd, tvp_fun, p_fun, y_fun, y_template, cost, nlp, opt_x_num,
          opt_p_num, opt_aux_num, x0, u0, z0, p_est0, t0, data, warnings, err,
          ret>>

\* The model and the construction arguments: fixed for the estimator's life.
modelVars == <<n_horizon, n_coll, n_tvp, p_est_list, scaling, symvar_type>>
\* The settings (self.settings) the model reads.
settingVars == <<meas_from_data, single_slack, cons_check_colloc_points,
                 nl_cons_check_colloc_points>>
\* What the configuration methods write.
configVars == <<settingVars, bnd, tvp_fun, p_fun, y_fun, y_template, cost>>
\* What make_step and set_initial_guess write.
runVars == <<opt_x_num, opt_p_num, opt_aux_num, x0, u0, z0, p_est0, t0, data,
            warnings, ret>>

\* ---------------------------------------------------------------- helpers
\* Python's index i into a list of length n, as a 1-based index.
PyIdx(i, n) == IF i < 0 THEN n + i + 1 ELSE i + 1

\* Python's index i into a list of length n, as a 0-based index.
Py0(i, n) == IF i < 0 THEN n + i ELSE i

\* Names of a sequence, as a set.
Range(s) == {s[i] : i \in 1..Len(s)}

\* Subsequence of the names of s that satisfy Keep, order preserved.
RECURSIVE Filter(_, _)
Filter(s, keep) ==
    IF s = <<>> THEN <<>>
    ELSE IF Head(s) \in keep THEN <<Head(s)>> \o Filter(Tail(s), keep)
    ELSE Filter(Tail(s), keep)

\* Keys of _p_est: the model's parameters that are in p_est_list.
p_est_keys(est) == Filter(p_keys, est)
\* Keys of _p_set: the model's parameters that are not in p_est_list.
p_set_keys(est) == Filter(p_keys, Range(p_keys) \ est)

\* p_cat_fun: the full parameter vector, in the model's order, from an
\* assignment of the estimated and one of the fixed parameters.
p_cat_fun_m(pe, ps) ==
    LET E == Filter(p_keys, DOMAIN pe)
        F == Filter(p_keys, DOMAIN ps)
    IN  [i \in 1..Len(p_keys) |->
            IF i <= Len(E) THEN pe[E[i]] ELSE ps[F[i - Len(E)]]]
p_cat_fun(pe, ps) ==
    [i \in 1..Len(p_keys) |->
        IF p_keys[i] \in DOMAIN pe THEN pe[p_keys[i]] ELSE ps[p_keys[i]]]

\* A numeric structure over the given keys with every value v.
Struct(keys, v) == [k \in Range(keys) |-> v]

\* The value meaning that an attribute was not created yet.
None == [exists |-> FALSE]

\* The process models the estimator is constructed on: one without
\* time-varying and without fixed parameters (both parameters estimated),
\* one with a time-varying parameter and the fixed parameter "b".
Models == {[n_tvp |-> 0, p_est_list |-> {"a", "b"}, symvar_type |-> "SX"],
           [n_tvp |-> 1, p_est_list |-> {"a"}, symvar_type |-> "SX"]}

\* Collocation-point counts of the discretisations the model is built with.
CollChoices == {1}
\* Identities of the cost expressions a caller may pass to set_objective.
CostIds == {1}
\* Identities of the supplier functions a caller may register.
FunIds == {"user"}

\* Scaling factors of the state, input, algebraic state and estimated
\* parameters: positive, and different from each other and from 1.
Scalings == [x |-> 2, u |-> 3, z |-> 5, p_est |-> 7]

\* The value of err after a call that returned normally.
NoErr == [msg |-> "none", names |-> {}]
\* A call that raises: only the error message is recorded.
Raise(msg) == err' = [msg |-> msg, names |-> {}]

\* -------------------------------------------------------------- construction
\* MHE.__init__ on the model m, with horizon N and C collocation points:
\* nothing is configured, every flag is false.
Constructed(N, C, m) ==
    /\ n_horizon = N
    /\ n_coll = C
    /\ n_tvp = m.n_tvp
    /\ p_est_list = m.p_est_list
    /\ scaling = Scalings
    /\ symvar_type = m.symvar_type
    /\ meas_from_data = TRUE
    /\ single_slack = FALSE
    /\ cons_check_colloc_points = TRUE
    /\ nl_cons_check_colloc_points = FALSE
    /\ flags = [setup |-> FALSE, set_tvp_fun |-> FALSE, set_p_fun |-> FALSE,
                set_y_fun |-> FALSE, set_objective |-> FALSE,
                set_initial_guess |-> FALSE, prepare_nlp |-> FALSE]
    /\ bnd = [lb |-> [g \in BoundGroups |-> -Inf], ub |-> [g \in BoundGroups |-> Inf]]
    /\ tvp_fun = "none"
    /\ p_fun = "none"
    /\ y_fun = "none"
    /\ y_template = <<>>
    /\ cost = [stage |-> 0, arrival |-> 0]
    /\ nlp = None
    /\ opt_x_num = None
    /\ opt_p_num = None
    /\ opt_aux_num = None
    /\ x0 = 0
    /\ u0 = 0
    /\ z0 = 0
    /\ p_est0 = Struct(p_est_keys(p_est_list), 0)
    /\ t0 = 0
    /\ data = [y |-> <<>>, x |-> <<>>, u |-> <<>>, z |-> <<>>, p |-> <<>>,
               tvp |-> <<>>, time |-> <<>>, aux |-> <<>>, opt_p_num |-> <<>>]
    /\ warnings = 0
    /\ err = NoErr
    /\ ret = <<>>

\* The estimators the behaviours start from.
Init ==
    \E N \in 1..MaxHorizon, C \in CollChoices, m \in Models : Constructed(N, C, m)


\* ------------------------------------------------------------ configuration
\* self.flags[name] = True
flag_set_m(fl, name) == [f \in DOMAIN fl |-> f = name]
flag_set(fl, name) == [fl EXCEPT ![name] = TRUE]

\* The setup flag is true: the assertion that opens set_param and follows
\* the shape checks of set_objective fails.
after_setup_m(fl) == FALSE
after_setup(fl) == fl.setup # FALSE

\* The settings a caller changes through set_param.
ParamKeys == {"meas_from_data", "nl_cons_single_slack", "cons_check_colloc_points",
              "nl_cons_check_colloc_points"}

\* set_param(key = b).
set_param(key, b) ==
    /\ err = NoErr
    /\ IF after_setup(flags)
       THEN /\ Raise("Setting parameters after setup is prohibited.")
            /\ UNCHANGED <<modelVars, configVars, flags, nlp, runVars>>
       ELSE /\ meas_from_data' = IF key = "meas_from_data" THEN b ELSE meas_from_data
            /\ single_slack' = IF key = "nl_cons_single_slack" THEN b ELSE single_slack
            /\ cons_check_colloc_points' =
                   IF key = "cons_check_colloc_points" THEN b ELSE cons_check_colloc_points
            /\ nl_cons_check_colloc_points' =
                   IF key = "nl_cons_check_colloc_points" THEN b
                   ELSE nl_cons_check_colloc_points
            /\ err' = NoErr
            /\ UNCHANGED <<modelVars, flags, bnd, tvp_fun, p_fun, y_fun, y_template,
                           cost, nlp, runVars>>

\* Inputs of set_objective: the identity of the cost pair, whether each
\* expression is scalar, and whether each uses only its permitted symbols.
ObjInput(id, ss, as, sy, ay) ==
    [id |-> id, stage_scalar |-> ss, arrival_scalar |-> as,
     stage_syms |-> sy, arrival_syms |-> ay]
\* For each of the given cost pairs, the valid pair and the pairs with
\* exactly one defect.
ObjInputsOf(ids) ==
    UNION {{ObjInput(id, TRUE, TRUE, TRUE, TRUE),
            ObjInput(id, FALSE, TRUE, TRUE, TRUE),
            ObjInput(id, TRUE, FALSE, TRUE, TRUE),
            ObjInput(id, TRUE, TRUE, FALSE, TRUE),
            ObjInput(id, TRUE, TRUE, TRUE, FALSE)} : id \in ids}
ObjInputs == ObjInputsOf(CostIds)

\* The symbolic types of the model: with SX the casadi Function constructor
\* raises for an expression with a symbol that is not among its inputs, with
\* MX the function is built and its evaluation raises.
SymTypes == {"SX", "MX"}
\* The function built from the expression id: a different function when
\* the expression depends on a symbol that is not among its inputs.
ExprOf(id, ok) == IF ok THEN id ELSE -id

\* set_objective(stage_cost, arrival_cost).
set_objective(o) ==
    /\ err = NoErr
    /\ IF ~o.stage_scalar
       THEN /\ Raise("stage_cost must have shape=(1,1)")
            /\ UNCHANGED <<modelVars, configVars, flags, nlp, runVars>>
       ELSE IF ~o.arrival_scalar
       THEN /\ Raise("arrival_cost must have shape=(1,1)")
            /\ UNCHANGED <<modelVars, configVars, flags, nlp, runVars>>
       ELSE IF after_setup(flags)
       THEN /\ Raise("Cannot call .set_objective after .setup.")
            /\ UNCHANGED <<modelVars, configVars, flags, nlp, runVars>>
       ELSE LET stage_built == o.stage_syms \/ symvar_type = "MX"
                arrival_built == stage_built /\ (o.arrival_syms \/ symvar_type = "MX")
            IN
            /\ cost' = [stage |-> IF stage_built THEN ExprOf(o.id, o.stage_syms)
                                  ELSE cost.stage,
                        arrival |-> IF arrival_built THEN ExprOf(o.id, o.arrival_syms)
                                    ELSE cost.arrival]
            /\ IF ~arrival_built
               THEN /\ Raise("Initialization failed since variables are free.")
                    /\ UNCHANGED flags
               ELSE IF ~o.stage_syms
               THEN /\ Raise("objective cost equation must be solely depending on w, v, p and tvp.")
                    /\ UNCHANGED flags
               ELSE IF ~o.arrival_syms
               THEN /\ Raise("Arrival cost equation must be solely depending on x_0, x_prev, p_0, p_prev, p_set")
                    /\ UNCHANGED flags
               ELSE /\ flags' = flag_set(flags, "set_objective")
                    /\ err' = NoErr
            /\ UNCHANGED <<modelVars, settingVars, bnd, tvp_fun, p_fun, y_fun,
                           y_template, nlp, runVars>>

\* Inputs of a supplier registration: the function, and whether its output
\* at time 0 carries the labels of the template.
FunInputs == [id : FunIds, labels_ok : BOOLEAN]

\* Optimizer.set_tvp_fun(tvp_fun).
set_tvp_fun(f) ==
    /\ err = NoErr
    /\ IF ~f.labels_ok
       THEN /\ Raise("Incorrect output of tvp_fun. Use get_tvp_template to obtain the required structure.")
            /\ UNCHANGED <<modelVars, configVars, flags, nlp, runVars>>
       ELSE /\ tvp_fun' = f.id
            /\ flags' = flag_set(flags, "set_tvp_fun")
            /\ err' = NoErr
            /\ UNCHANGED <<modelVars, settingVars, bnd, p_fun, y_fun, y_template,
                           cost, nlp, runVars>>

\* The labels of the supplier's output at time 0 are those of the template.
labels_match_m(f) == TRUE
labels_match(f) == f.labels_ok

\* set_p_fun(p_fun).
set_p_fun(f) ==
    /\ err = NoErr
    /\ IF ~labels_match(f)
       THEN /\ Raise("Incorrect output of p_fun. Use get_p_template to obtain the required structure.")
            /\ UNCHANGED <<modelVars, configVars, flags, nlp, runVars>>
       ELSE /\ p_fun' = f.id
            /\ flags' = flag_set(flags, "set_p_fun")
            /\ err' = NoErr
            /\ UNCHANGED <<modelVars, settingVars, bnd, tvp_fun, y_fun, y_template,
                           cost, nlp, runVars>>

\* set_y_fun(y_fun).
set_y_fun(f) ==
    /\ err = NoErr
    /\ IF ~labels_match(f)
       THEN /\ Raise("Incorrect output of y_fun. Use get_y_template to obtain the required structure.")
            /\ UNCHANGED <<modelVars, configVars, flags, nlp, runVars>>
       ELSE /\ y_fun' = f.id
            /\ flags' = flag_set(flags, "set_y_fun")
            /\ err' = NoErr
            /\ UNCHANGED <<modelVars, settingVars, bnd, tvp_fun, p_fun, y_template,
                           cost, nlp, runVars>>

\* Pairs (lower, upper) a caller assigns to one group of bounds.
BoundPairs == {<<0, 1>>, <<1, 0>>}

\* Optimizer.bounds: bounds['lower', g] = b[1] and bounds['upper', g] = b[2],
\* written once, before the problem is prepared.
set_bounds(g, b) ==
    /\ err = NoErr
    /\ ~flags.prepare_nlp
    /\ \A h \in BoundGroups : bnd.lb[h] = -Inf /\ bnd.ub[h] = Inf
    /\ bnd' = [lb |-> [bnd.lb EXCEPT ![g] = b[1]], ub |-> [bnd.ub EXCEPT ![g] = b[2]]]
    /\ err' = NoErr
    /\ UNCHANGED <<modelVars, settingVars, flags, tvp_fun, p_fun, y_fun,
                   y_template, cost, nlp, runVars>>

\* ------------------------------------------------------------ validity gate
\* The bound structures _check_validity compares, in the order of its loop.
CheckedBounds == <<"x", "u", "z">>

\* tvp_fun must be set, if tvp are defined in model.
tvp_missing_m(fl, size) == FALSE
tvp_missing(fl, size) == fl.set_tvp_fun = FALSE /\ size > 0
\* p_fun must be set, if p are defined in model.
p_missing(fl, size) == fl.set_p_fun = FALSE /\ size > 0

\* Entries of bound structure g with lower bound > upper bound.
bound_fail(g) == IF bnd.lb[g] > bnd.ub[g] THEN {g} ELSE {}

\* The first bound structure of the loop that has a failing entry, or 0.
first_bound_fail ==
    IF \E i \in 1..Len(CheckedBounds) : bound_fail(CheckedBounds[i]) # {}
    THEN CHOOSE i \in 1..Len(CheckedBounds) :
            /\ bound_fail(CheckedBounds[i]) # {}
            /\ \A j \in 1..(i - 1) : bound_fail(CheckedBounds[j]) = {}
    ELSE 0

\* Which measurement supplier _check_validity ends with: the default one it
\* creates, the one the caller registered, or none (an error).
y_source_m(fl, mfd) ==
    IF mfd THEN "default"
    ELSE IF fl.set_y_fun = TRUE THEN "registered"
    ELSE "missing"
y_source(fl, mfd) ==
    IF fl.set_y_fun = FALSE /\ mfd THEN "default"
    ELSE IF fl.set_y_fun = TRUE THEN "registered"
    ELSE "missing"

\* The checks of _check_validity that precede the injection of defaults:
\* the error they raise, or NoErr.
validity_error_m ==
    IF tvp_missing(flags, n_tvp)
    THEN [msg |-> "You have not supplied a function to obtain the time-varying parameters defined in model.", names |-> {}]
    ELSE IF p_missing(flags, Len(p_set_keys(p_est_list)))
    THEN [msg |-> "You have not supplied a function to obtain the parameters defined in model.", names |-> {}]
    ELSE IF first_bound_fail # 0
    THEN [msg |-> "Your bounds are inconsistent.",
          names |-> bound_fail(CheckedBounds[first_bound_fail])]
    ELSE NoErr
validity_error ==
    IF flags.set_objective = FALSE
    THEN [msg |-> "Objective is undefined.", names |-> {}]
    ELSE IF tvp_missing(flags, n_tvp)
    THEN [msg |-> "You have not supplied a function to obtain the time-varying parameters defined in model.", names |-> {}]
    ELSE IF p_missing(flags, Len(p_set_keys(p_est_list)))
    THEN [msg |-> "You have not supplied a function to obtain the parameters defined in model.", names |-> {}]
    ELSE IF first_bound_fail # 0
    THEN [msg |-> "Your bounds are inconsistent.",
          names |-> bound_fail(CheckedBounds[first_bound_fail])]
    ELSE NoErr

\* Set dummy functions for tvp and p in case these parameters are unused:
\* a supplier is injected when none is stored.
inject(fun) == IF fun = "none" THEN "default" ELSE fun

\* The template get_y_template returns: n_horizon measurements, all zero.
get_y_template == [k \in 1..n_horizon |-> <<0>>]

\* ------------------------------------------------------------ NLP structure
\* Bounds of the slack variables, as _setup_nl_cons leaves them.
eps_lb == 0
eps_ub == Inf

\* Index sets of the decision structure opt_x.
XSteps == 0..n_horizon
XPoints == 0..n_coll
ZSteps == 0..(n_horizon - 1)
ZPoints_m == 0..(n_coll - 1)
ZPoints == 0..((IF n_coll > 1 THEN n_coll ELSE 1) - 1)
\* How many slack variables are introduced over the horizon: n_eps entries.
EpsSteps == IF single_slack THEN 0..0 ELSE 0..(n_horizon - 1)

\* Labels of the scalar entries of opt_x, for a model with one state, one
\* algebraic state, one input, one process noise, one measurement noise and
\* one nonlinear constraint.
opt_x_labels ==
    {<<"_x", k, c>> : k \in XSteps, c \in XPoints}
    \cup {<<"_z", k, c>> : k \in ZSteps, c \in ZPoints}
    \cup {<<"_u", k, 0>> : k \in ZSteps}
    \cup {<<"_w", k, 0>> : k \in ZSteps}
    \cup {<<"_v", k, 0>> : k \in ZSteps}
    \cup {<<"_eps", k, 0>> : k \in EpsSteps}
    \cup {<<"_p_est", i, 0>> : i \in 1..Len(p_est_keys(p_est_list))}
\* n_opt_x = opt_x.shape[0]
n_opt_x == Cardinality(opt_x_labels)

\* _update_bounds: one of lb_opt_x, ub_opt_x from the bounds b of the groups,
\* the slack bound e and the value d of an entry that receives no bound.
update_bounds(b, e, d) ==
    [x |-> [k \in XSteps |-> [c \in XPoints |->
                IF cons_check_colloc_points THEN b["x"]
                ELSE IF k \in 1..(n_horizon - 1) /\ c = n_coll THEN b["x"] ELSE d]],
     z |-> [k \in ZSteps |-> [c \in ZPoints |->
                IF cons_check_colloc_points THEN b["z"]
                ELSE IF c = 0 THEN b["z"] ELSE d]],
     u |-> [k \in ZSteps |-> b["u"]],
     eps |-> e,
     p_est |-> b["p_est"]]

\* n_eps of _prepare_nlp: the number of slack entries over the horizon,
\* and k_eps = min(k, n_eps - 1), the slack entry of horizon step k.
n_eps == IF single_slack THEN 1 ELSE n_horizon
k_eps(k) == IF k < n_eps - 1 THEN k ELSE n_eps - 1

\* One evaluation of _nl_cons_fun in the iteration of horizon step k: the
\* horizon step of the input, time-varying-parameter and slack entries it
\* is given, and the (step, point) entries of the state and of the
\* algebraic state.
nl_cons_fun(k, x, z) ==
    [kind |-> "nl_cons", u |-> k, tvp |-> k, eps |-> k_eps(k), x |-> x, z |-> z]

\* The local variable nl_cons_k before its first assignment.
Unbound == [kind |-> "unbound"]

\* The nonlinear-constraint sets the branch on
\* settings.nl_cons_check_colloc_points evaluates and appends in the
\* iteration of step k: one per collocation point, or one at the beginning
\* of the interval.
nl_cons_evals(k) ==
    IF nl_cons_check_colloc_points
    THEN [i \in 1..n_coll |-> nl_cons_fun(k, <<k + 1, i - 1>>, <<k, i - 1>>)]
    ELSE <<nl_cons_fun(k, <<k, Py0(-1, n_coll + 1)>>, <<k, 0>>)>>

\* The value of the local variable nl_cons_k after that branch, in the
\* iteration of step k: the last set evaluated in this iteration, else
\* what the preceding iteration left, else unbound.
RECURSIVE nl_cons_k(_)
nl_cons_k(k) ==
    LET ev == nl_cons_evals(k)
    IN  IF ev # <<>> THEN ev[Len(ev)]
        ELSE IF k = 0 THEN Unbound
        ELSE nl_cons_k(k - 1)

\* The blocks the iteration of step k appends to cons: the collocation
\* equations, the continuity constraints, the measurement constraints, the
\* sets of the branch, and then nl_cons_k once more.
step_cons(k) ==
    <<[kind |-> "collocation", k |-> k], [kind |-> "continuity", k |-> k],
      [kind |-> "measurement", k |-> k]>>
    \o nl_cons_evals(k) \o <<nl_cons_k(k)>>
\* The blocks it appends to cons_lb and to cons_ub.
step_cons_lb(k) ==
    <<"zeros", "zeros", "zeros">>
    \o [i \in 1..Len(nl_cons_evals(k)) |-> "_nl_cons_lb"] \o <<"_nl_cons_lb">>
step_cons_ub(k) ==
    <<"zeros", "zeros", "zeros">>
    \o [i \in 1..Len(nl_cons_evals(k)) |-> "_nl_cons_ub"] \o <<"_nl_cons_ub">>

\* What the iteration of step k appends to the named list.
step_append(list, k) ==
    IF list = "cons" THEN step_cons(k)
    ELSE IF list = "cons_lb" THEN step_cons_lb(k)
    ELSE step_cons_ub(k)

\* The named list after the iterations of steps 0..k-1.
RECURSIVE cons_loop(_, _)
cons_loop(list, k) ==
    IF k = 0 THEN <<>> ELSE cons_loop(list, k - 1) \o step_append(list, k - 1)

\* The loop reads nl_cons_k before any assignment to it.
nl_cons_unbound == \E k \in ZSteps : nl_cons_k(k) = Unbound

\* The test evaluation of _create_nlp fails for an objective built from a
\* cost function with a symbol that is not among its inputs.
obj_unknown(obj) == obj.stage < 0 \/ obj.arrival < 0

\* A numeric copy of opt_x with every entry zero.
opt_x_zero ==
    [exists |-> TRUE,
     x |-> [k \in XSteps |-> [c \in XPoints |-> 0]],
     z |-> [k \in ZSteps |-> [c \in ZPoints |-> 0]],
     u |-> [k \in ZSteps |-> 0],
     w |-> [k \in ZSteps |-> 0],
     v |-> [k \in ZSteps |-> 0],
     eps |-> [k \in EpsSteps |-> 0],
     p_est |-> Struct(p_est_keys(p_est_list), 0)]

\* A numeric copy of opt_p with every entry zero.
opt_p_zero ==
    [exists |-> TRUE,
     x_prev |-> 0,
     p_est_prev |-> Struct(p_est_keys(p_est_list), 0),
     p_set |-> Struct(p_set_keys(p_est_list), 0),
     tvp |-> [k \in 1..n_horizon |-> [i \in 1..n_tvp |-> 0]],
     y_meas |-> [k \in 1..n_horizon |-> <<0>>]]

\* ------------------------------------------------------------- finalisation
\* _prepare_nlp, followed by _create_nlp when create is true (setup).
do_prepare(create) ==
    LET e == validity_error
        src == y_source(flags, meas_from_data)
    IN  IF e # NoErr
        THEN /\ err' = e
             /\ UNCHANGED <<modelVars, configVars, flags, nlp, runVars>>
        ELSE
          /\ tvp_fun' = inject(tvp_fun)
          /\ p_fun' = inject(p_fun)
          /\ UNCHANGED <<modelVars, settingVars, bnd, cost, x0, u0, z0,
                         p_est0, t0, data, warnings, ret>>
          /\ IF src = "missing"
             THEN /\ Raise("You have not suppplied a measurement function.")
                  /\ flags' = [flags EXCEPT !.set_tvp_fun = TRUE, !.set_p_fun = TRUE]
                  /\ UNCHANGED <<y_fun, y_template, nlp, opt_x_num, opt_p_num,
                                 opt_aux_num>>
             ELSE IF nl_cons_unbound
             THEN /\ Raise("local variable 'nl_cons_k' referenced before assignment")
                  /\ y_fun' = IF src = "default" THEN "default" ELSE y_fun
                  /\ y_template' = IF src = "default" THEN get_y_template
                                   ELSE y_template
                  /\ flags' = [flags EXCEPT !.set_tvp_fun = TRUE,
                                            !.set_p_fun = TRUE,
                                            !.set_y_fun = TRUE]
                  /\ UNCHANGED <<nlp, opt_x_num, opt_p_num, opt_aux_num>>
             ELSE /\ y_fun' = IF src = "default" THEN "default" ELSE y_fun
                  /\ y_template' = IF src = "default" THEN get_y_template
                                   ELSE y_template
                  /\ nlp' = [exists |-> TRUE,
                             cons |-> cons_loop("cons", n_horizon),
                             cons_lb |-> cons_loop("cons_lb", n_horizon),
                             cons_ub |-> cons_loop("cons_ub", n_horizon),
                             lb_opt_x |-> update_bounds(bnd.lb, eps_lb, -Inf),
                             ub_opt_x |-> update_bounds(bnd.ub, eps_ub, Inf),
                             n_opt_x |-> n_opt_x,
                             obj |-> cost]
                  /\ opt_x_num' = opt_x_zero
                  /\ opt_p_num' = opt_p_zero
                  /\ opt_aux_num' = 0
                  /\ flags' = [flags EXCEPT !.set_tvp_fun = TRUE,
                                            !.set_p_fun = TRUE,
                                            !.set_y_fun = TRUE,
                                            !.prepare_nlp = TRUE,
                                            !.setup = create /\ ~obj_unknown(cost)]
                  /\ IF create /\ obj_unknown(cost)
                     THEN Raise("The MHE optimization problem objective function contains unknown symbolic variables.")
                     ELSE err' = NoErr

\* Optimizer.prepare_nlp: the first phase of the two-phase finalisation.
\* Finalisation is modelled once: no phase is repeated after setup is true.
prepare_nlp ==
    /\ err = NoErr
    /\ ~flags.setup
    /\ do_prepare(FALSE)

\* Optimizer.create_nlp: the second phase; it needs the constraint list
\* that _prepare_nlp builds.
create_nlp ==
    /\ err = NoErr
    /\ ~flags.setup
    /\ IF ~flags.prepare_nlp
       THEN /\ Raise("_nlp_cons is not defined")
            /\ UNCHANGED <<modelVars, configVars, flags, nlp, runVars>>
       ELSE IF obj_unknown(nlp.obj)
       THEN /\ Raise("The MHE optimization problem objective function contains unknown symbolic variables.")
            /\ UNCHANGED <<modelVars, configVars, flags, nlp, runVars>>
       ELSE /\ flags' = [flags EXCEPT !.setup = TRUE]
            /\ err' = NoErr
            /\ UNCHANGED <<modelVars, configVars, nlp, runVars>>

\* setup: prepare_nlp, then create_nlp.
setup ==
    /\ err = NoErr
    /\ ~flags.setup
    /\ do_prepare(TRUE)

\* The assertion that opens set_initial_guess and make_step: the flag
\* 'setup' of the given flags is true.
setup_done_m(fl) == fl.prepare_nlp = TRUE
setup_done(fl) == fl.setup = TRUE

\* ------------------------------------------------------------ initial guess
\* A physical value v as the optimiser's scaled value. The holders only
\* ever hold multiples of their scaling factor, so the division is exact.
Scaled_m(v, sc) == v
Scaled(v, sc) == v \div sc

\* set_initial_guess: x0, u0, z0 and p_est0 in every entry of the buffer.
set_initial_guess ==
    /\ err = NoErr
    /\ IF ~setup_done(flags)
       THEN /\ Raise("mhe was not setup yet. Please call mhe.setup().")
            /\ UNCHANGED <<modelVars, configVars, flags, nlp, runVars>>
       ELSE /\ opt_x_num' =
                   [opt_x_num EXCEPT
                       !.x = [k \in XSteps |-> [c \in XPoints |-> Scaled(x0, scaling.x)]],
                       !.u = [k \in ZSteps |-> Scaled(u0, scaling.u)],
                       !.z = [k \in ZSteps |-> [c \in ZPoints |-> Scaled(z0, scaling.z)]],
                       !.p_est = [n \in DOMAIN p_est0 |-> Scaled(p_est0[n], scaling.p_est)]]
            /\ flags' = flag_set(flags, "set_initial_guess")
            /\ err' = NoErr
            /\ UNCHANGED <<modelVars, configVars, nlp, opt_p_num, opt_aux_num,
                           x0, u0, z0, p_est0, t0, data, warnings, ret>>

\* ---------------------------------------------------------------- suppliers
\* The functions of the caller, each a different function of the time it is
\* queried with: time-varying parameters per horizon step, fixed parameters,
\* and a measurement window.
user_tvp(t) == [k \in 1..n_horizon |-> [i \in 1..n_tvp |-> 20 + t + k]]
user_p(t) == [n \in Range(p_set_keys(p_est_list)) |-> 50 + t]
user_y(t) == [k \in 1..n_horizon |-> <<30 + t + k>>]

\* The time-varying parameters supplier f returns for time t: one entry
\* per horizon step.
tvp_eval(f, t) ==
    IF f = "default" THEN [k \in 1..n_horizon |-> [i \in 1..n_tvp |-> 0]]
    ELSE user_tvp(t)

\* The fixed parameters supplier f returns for time t.
p_eval(f, t) ==
    IF f = "default" THEN Struct(p_set_keys(p_est_list), 0) ELSE user_p(t)

\* The default measurement supplier created by _check_validity: the
\* template after reading the log of measurements.
y_fun_default_m(log, tmpl) ==
    LET N == Len(tmpl)
        n_steps == IF Len(log) < N THEN Len(log) ELSE N
    IN  [k \in 1..N |-> IF k > N - n_steps THEN log[k - (N - n_steps)]
                        ELSE log[1]]
y_fun_default(log, tmpl) ==
    LET N == Len(tmpl)
        n_steps == IF Len(log) < N THEN Len(log) ELSE N
        \* for k in range(-n_steps,0): y_template['y_meas',k] = data._y[k]
        recent == [k \in 1..N |->
                     IF k > N - n_steps
                     THEN log[PyIdx(k - 1 - N, Len(log))]
                     ELSE tmpl[k]]
    IN  \* for k in range(n_horizon-n_steps): ... = data._y[-n_steps];
        \* on an empty log the read fails and the error is swallowed
        IF Len(log) = 0 THEN recent
        ELSE [k \in 1..N |->
                 IF k - 1 \in 0..(N - n_steps - 1)
                 THEN log[PyIdx(-n_steps, Len(log))]
                 ELSE recent[k]]

\* The measurement window supplier f returns for time t.
y_eval_m(f, t, log, tmpl) ==
    IF f = "default" THEN y_fun_default(log, tmpl) ELSE user_y(t + t_step)
y_eval(f, t, log, tmpl) ==
    IF f = "default" THEN y_fun_default(log, tmpl) ELSE user_y(t)

\* -------------------------------------------------------------------- solve
\* The primal solution number v of the external solver, over the layout of
\* opt_x: every entry has its own value.
Sol(v) ==
    [exists |-> TRUE,
     x |-> [k \in XSteps |-> [c \in XPoints |-> 100 * v + 10 * k + c]],
     z |-> [k \in ZSteps |-> [c \in ZPoints |-> 100 * v + 10 * k + c + 5]],
     u |-> [k \in ZSteps |-> 100 * v + k + 50],
     w |-> [k \in ZSteps |-> 100 * v + k + 60],
     v |-> [k \in ZSteps |-> 100 * v + k + 80],
     eps |-> [k \in EpsSteps |-> 100 * v + k + 90],
     p_est |-> [n \in Range(p_est_keys(p_est_list)) |->
                   100 * v + (IF n = "a" THEN 71 ELSE 72)]]

\* Measurements handed to make_step, each with its type: the next
\* measurement as an array and as a numeric structure (the measurements are
\* numbered in the order they are logged), arrays of a wrong size, and a
\* Python list.
MeasInputs ==
    LET y == <<Len(data.y) + 1>>
    IN  {<<"ndarray", y>>, <<"DMStruct", y>>, <<"ndarray", <<>>>>,
         <<"ndarray", y \o y>>, <<"list", y>>}

\* Outcomes of the external solve: a failure (0), or its next solution;
\* the solutions are numbered in the order of the successful solves.
SolverOutcomes == {0, Len(data.x) + 1}

\* The auxiliary expressions of the last horizon step for solution v.
AuxOf(v) == 1000 + v

\* ---------------------------------------------------------------- make_step
\* Check input type: arrays and numeric structures are accepted.
type_ok(ty) == ty \in {"ndarray", "DM", "DMStruct"}
\* Check input shape: n_val == model.n_y.
shape_ok_m(y) == TRUE
shape_ok(y) == Len(y) = n_y

\* Check (once) if the initial guess was supplied: the warning is due.
warn_needed_m(fl) == TRUE
warn_needed(fl) == ~fl.set_initial_guess

\* opt_x_num['_x', 1, -1] * _x_scaling
x_prev_of_m(ox) == 0
x_prev_of_last(ox) == ox.x[Py0(-1, n_horizon + 1)][Py0(-1, n_coll + 1)] * scaling.x
x_prev_of_first(ox) == ox.x[0][Py0(-1, n_coll + 1)] * scaling.x
x_prev_of(ox) == ox.x[1][Py0(-1, n_coll + 1)] * scaling.x
\* opt_x_num['_x', -1, -1] * _x_scaling
x_next_of_m(ox) == ox.x[1][Py0(-1, n_coll + 1)] * scaling.x
x_next_of(ox) == ox.x[Py0(-1, n_horizon + 1)][Py0(-1, n_coll + 1)] * scaling.x
\* opt_x_num['_p_est'] * _p_est_scaling
p_est_next_of(ox) == [n \in DOMAIN ox.p_est |-> ox.p_est[n] * scaling.p_est]
\* opt_x_num['_u', -1] * _u_scaling
u0_of(ox) == ox.u[Py0(-1, n_horizon)] * scaling.u
\* opt_x_num['_z', -1, -1] * _z_scaling
z0_of(ox) == ox.z[Py0(-1, n_horizon)][Py0(-1, Cardinality(ZPoints))] * scaling.z

\* The decision buffer as make_step hands it to the solve, the initial guess
\* of the solve: the statements between the input checks and the solve
\* write no entry of it.
guess_of_m(ox) == opt_x_zero
guess_of(ox) == ox

\* The state and the estimated parameters make_step writes to the log.
logged_x(x_old, x_new) == x_old
logged_p_est(p_old, p_new) == p_old

\* data.update(field = value): one record appended to a field of the log.
data_update(d, field, value) == [d EXCEPT ![field] = Append(@, value)]

\* make_step(y0) with y0 of type ty, when the external solve ends with s.
make_step(ty, y0, s) ==
    /\ err = NoErr
    /\ IF ~setup_done(flags)
       THEN /\ Raise("optimizer was not setup yet. Please call optimizer.setup().")
            /\ UNCHANGED <<modelVars, configVars, flags, nlp, runVars>>
       ELSE IF ~type_ok(ty)
       THEN /\ Raise("Invalid type for y0.")
            /\ UNCHANGED <<modelVars, configVars, flags, nlp, runVars>>
       ELSE IF ~shape_ok(y0)
       THEN /\ Raise("Wrong input with shape.")
            /\ UNCHANGED <<modelVars, configVars, flags, nlp, runVars>>
       ELSE
         LET d1 == data_update(data, "y", y0)
             tvp0 == tvp_eval(tvp_fun, t0)
             p_set0 == p_eval(p_fun, t0)
             y_traj == y_eval(y_fun, t0, d1.y, y_template)
             opt_p == [exists |-> TRUE,
                       x_prev |-> x_prev_of(opt_x_num),
                       p_est_prev |-> p_est0,
                       p_set |-> p_set0,
                       tvp |-> tvp0,
                       y_meas |-> y_traj]
         IN
         /\ Len(data.y) < MaxSteps
         /\ flags' = flag_set(flags, "set_initial_guess")
         /\ warnings' = IF warn_needed(flags) THEN warnings + 1 ELSE warnings
         /\ y_template' = IF y_fun = "default" THEN y_traj ELSE y_template
         /\ opt_p_num' = opt_p
         /\ UNCHANGED <<modelVars, settingVars, bnd, tvp_fun, p_fun, y_fun,
                        cost, nlp>>
         /\ IF s = 0
            THEN /\ Raise("solver failed")
                 /\ data' = d1
                 /\ opt_x_num' = guess_of(opt_x_num)
                 /\ UNCHANGED <<opt_aux_num, x0, u0, z0, p_est0, t0, ret>>
            ELSE
              LET ox == Sol(s)
                  x_next == x_next_of(ox)
                  p_est_next == p_est_next_of(ox)
                  u_new == u0_of(ox)
                  z_new == z0_of(ox)
                  aux0 == AuxOf(s)
                  p0 == p_cat_fun(logged_p_est(p_est0, p_est_next), p_set0)
                  d2 == data_update(d1, "x", logged_x(x0, x_next))
                  d3 == data_update(d2, "u", u_new)
                  d4 == data_update(d3, "z", z_new)
                  d5 == data_update(d4, "p", p0)
                  d6 == data_update(d5, "tvp", tvp0[PyIdx(-1, n_horizon)])
                  d7 == data_update(d6, "time", t0)
                  d8 == data_update(d7, "aux", aux0)
                  d9 == data_update(d8, "opt_p_num", opt_p)
              IN
              /\ opt_x_num' = ox
              /\ opt_aux_num' = aux0
              /\ data' = d9
              /\ t0' = t0 + t_step
              /\ x0' = x_next
              /\ p_est0' = p_est_next
              /\ u0' = u_new
              /\ z0' = z_new
              /\ ret' = <<x_next>>
              /\ err' = NoErr

\* The caller handles the error raised by the last call and goes on: the
\* estimator is as the failed call left it.
handled ==
    /\ err # NoErr
    /\ err' = NoErr
    /\ UNCHANGED <<modelVars, configVars, flags, nlp, runVars>>

\* ------------------------------------------------------------ specification
\* One call of the estimator's interface at a time; a call that raised is
\* handled by the caller before the next call.
Next ==
    \/ \E b \in BOOLEAN : set_param("meas_from_data", b)
    \/ \E o \in ObjInputs : set_objective(o)
    \/ \E f \in FunInputs : set_tvp_fun(f)
    \/ \E f \in FunInputs : set_p_fun(f)
    \/ \E f \in FunInputs : set_y_fun(f)
    \/ \E g \in BoundGroups, b \in BoundPairs : set_bounds(g, b)
    \/ prepare_nlp
    \/ create_nlp
    \/ setup
    \/ set_initial_guess
    \/ \E m \in MeasInputs, s \in SolverOutcomes : make_step(m[1], m[2], s)
    \/ handled


Spec == Init /\ [][Next]_vars

\* ------------------------------------------------- parameter partition
\* Names an estimation list is drawn from: the model's parameters and a
\* name the model does not declare.
EstNames == {"a", "b", "c"}

\* Estimators constructed with every estimation list, on the model without
\* time-varying parameters and a horizon of one step.
PartInit ==
    \E est \in SUBSET EstNames :
        Constructed(1, 1, [n_tvp |-> 0, p_est_list |-> est, symvar_type |-> "SX"])

PartSpec == PartInit /\ [][Next]_vars

\* ------------------------------------------------------- layout assembly
\* Estimators of every horizon and every number of collocation points, the
\* case without collocation points included.
\* The estimator on a model of either symbolic type, configured with one
\* of several cost pairs, finalized in one or in two phases, and stepped.
ObjInit ==
    \E N \in 1..MaxHorizon, sym \in SymTypes :
        Constructed(N, 1, [n_tvp |-> 0, p_est_list |-> {"a", "b"}, symvar_type |-> sym])

ObjNext ==
    \/ \E o \in ObjInputsOf(1..MaxCosts) : set_objective(o)
    \/ prepare_nlp
    \/ create_nlp
    \/ setup
    \/ \E m \in MeasInputs, s \in SolverOutcomes : make_step(m[1], m[2], s)
    \/ handled

ObjSpec == ObjInit /\ [][ObjNext]_vars

LayoutInit ==
    \E N \in 1..MaxHorizon, C \in 0..MaxColl, m \in Models : Constructed(N, C, m)

\* The calls that configure and assemble the problem, every setting and
\* the bounds of the state and of the algebraic state included.
LayoutNext ==
    \/ \E k \in ParamKeys, b \in BOOLEAN : set_param(k, b)
    \/ \E g \in {"x", "z"} : set_bounds(g, <<0, 1>>)
    \/ \E o \in ObjInputs : set_objective(o)
    \/ \E f \in FunInputs : set_tvp_fun(f)
    \/ \E f \in FunInputs : set_p_fun(f)
    \/ prepare_nlp
    \/ create_nlp
    \/ setup
    \/ handled

LayoutSpec == LayoutInit /\ [][LayoutNext]_vars

\* ================================================================== claims
\* A measurement input make_step accepts: an array or a numeric structure
\* with as many elements as the model has measurements.
WellFormed(m) == m[1] \in {"ndarray", "DMStruct"} /\ Len(m[2]) = n_y
\* An array or structure with a wrong number of elements.
WrongShape(m) == m[1] \in {"ndarray", "DMStruct"} /\ Len(m[2]) # n_y
\* The estimator is as it was before the call: everything but the error.
EstimatorUnchanged == UNCHANGED <<modelVars, configVars, flags, nlp, runVars>>

\* C1: after finalization, a make_step call whose measurement has an element
\* count different from the model's measurement dimension fails, and leaves
\* x0, p_est0, u0, z0, t0, the measurement log, the decision buffer, the
\* parameter buffer and all flags as they were before the call.
C1_WrongShapeRejected ==
    [][\A m \in MeasInputs, s \in SolverOutcomes :
          (flags.setup /\ WrongShape(m) /\ make_step(m[1], m[2], s))
             => /\ err' # NoErr
                /\ UNCHANGED <<x0, p_est0, u0, z0, t0, data, opt_x_num,
                               opt_p_num, flags>>]_vars

\* A wrong-shaped measurement was rejected after two measurements were logged
\* and an estimate was stored.
C1_Witness ==
    /\ flags.setup
    /\ err.msg = "Wrong input with shape."
    /\ Len(data.y) = 2
    /\ x0 # 0

\* C2: make_step is rejected in every state in which finalization has not
\* completed (also when prepare_nlp completed and create_nlp did not), the
\* rejected call changes no runtime state, log or flag, and the setup flag
\* becomes true only by create_nlp (alone or as the second half of setup),
\* with the problem prepared.
C2_StepNeedsSetup ==
    [][/\ \A m \in MeasInputs, s \in SolverOutcomes :
             (~flags.setup /\ make_step(m[1], m[2], s))
                => (err' # NoErr /\ EstimatorUnchanged)
       /\ (~flags.setup /\ flags'.setup)
             => ((create_nlp \/ setup) /\ flags'.prepare_nlp)]_vars

\* make_step was rejected between prepare_nlp and create_nlp.
C2_Witness ==
    /\ flags.prepare_nlp
    /\ ~flags.setup
    /\ err.msg = "optimizer was not setup yet. Please call optimizer.setup()."

\* C3: after every successful make_step, x0 equals the value returned by
\* the call, which is the decision buffer's last horizon step, final
\* collocation point, times the state scaling; p_est0, u0 and z0 equal the
\* parameter, input and algebraic values of the same buffer.
C3_HoldersAreExtracted ==
    [][\A m \in MeasInputs, s \in SolverOutcomes :
          (flags.setup /\ WellFormed(m) /\ s # 0 /\ make_step(m[1], m[2], s))
             => /\ err' = NoErr
                /\ ret' = <<opt_x_num'.x[n_horizon][n_coll] * scaling.x>>
                /\ x0' = ret'[1]
                /\ p_est0' = [n \in DOMAIN opt_x_num'.p_est |->
                                 opt_x_num'.p_est[n] * scaling.p_est]
                /\ u0' = opt_x_num'.u[n_horizon - 1] * scaling.u
                /\ z0' = opt_x_num'.z[n_horizon - 1][Cardinality(ZPoints) - 1]
                            * scaling.z]_vars

\* Two steps have succeeded on a horizon longer than one step, and the
\* holder is the value returned by the second.
C3_Witness ==
    /\ Len(data.x) = 2
    /\ n_horizon > 1
    /\ err = NoErr
    /\ ret = <<x0>>
    /\ x0 = opt_x_num.x[n_horizon][n_coll] * scaling.x

\* A finalization call: prepare_nlp, or setup (prepare_nlp and create_nlp).
Finalize == prepare_nlp \/ setup

\* C4: finalization fails whenever the model declares a time-varying
\* parameter and no time-varying-parameter supplier was registered, and
\* whenever a non-estimated parameter exists and no fixed-parameter supplier
\* was registered; a default supplier is only ever in place for a channel
\* of dimension zero.
C4_RequiredSuppliers ==
    /\ [](/\ tvp_fun = "default" => n_tvp = 0
          /\ p_fun = "default" => p_est_list = {"a", "b"})
    /\ [][(/\ Finalize
           /\ \/ n_tvp > 0 /\ tvp_fun = "none"
              \/ p_est_list # {"a", "b"} /\ p_fun = "none")
             => /\ err' # NoErr
                /\ flags' = flags
                /\ tvp_fun' = tvp_fun
                /\ p_fun' = p_fun
                /\ nlp' = nlp]_vars

\* Finalization failed for the missing fixed-parameter supplier, with the
\* objective and the time-varying-parameter supplier in place.
C4_Witness ==
    /\ n_tvp > 0
    /\ tvp_fun = "user"
    /\ p_fun = "none"
    /\ flags.set_objective
    /\ err.msg = "You have not supplied a function to obtain the parameters defined in model."

\* C5: while no set_objective call has completed, prepare_nlp and setup fail
\* before any decision or parameter structure is built, the setup flag stays
\* false, and make_step and set_initial_guess are rejected without effect.
C5_ObjectiveRequired ==
    /\ [](~flags.set_objective =>
             /\ ~flags.setup /\ ~flags.prepare_nlp
             /\ nlp = None /\ opt_x_num = None /\ opt_p_num = None)
    /\ [][(~flags.set_objective /\ Finalize)
             => /\ err' = [msg |-> "Objective is undefined.", names |-> {}]
                /\ EstimatorUnchanged]_vars
    /\ [][(/\ ~flags.set_objective
           /\ \/ set_initial_guess
              \/ \E m \in MeasInputs, s \in SolverOutcomes : make_step(m[1], m[2], s))
             => (err' # NoErr /\ EstimatorUnchanged)]_vars

\* Finalization failed for the missing objective after a set_objective call
\* was rejected for the symbols of its cost, with both suppliers registered.
C5_Witness ==
    /\ cost.stage # 0
    /\ ~flags.set_objective
    /\ flags.set_tvp_fun /\ flags.set_p_fun
    /\ err.msg = "Objective is undefined."

\* Some entry of the lower bounds of the decision layout is above its upper
\* bound.
BoundsCrossed(lb, ub) ==
    \/ \E k \in XSteps, c \in XPoints : lb.x[k][c] > ub.x[k][c]
    \/ \E k \in ZSteps, c \in ZPoints : lb.z[k][c] > ub.z[k][c]
    \/ \E k \in ZSteps : lb.u[k] > ub.u[k]
    \/ lb.eps > ub.eps
    \/ lb.p_est > ub.p_est

\* C6: when a bound structure (state, algebraic state, input, slack or
\* estimated parameters) has a lower bound above its upper bound,
\* finalization fails and the error names every offending entry; it never
\* completes with a lower bound above its upper bound.
C6_BoundsConsistent ==
    /\ [](nlp.exists => ~BoundsCrossed(nlp.lb_opt_x, nlp.ub_opt_x))
    /\ [][(/\ Finalize
           /\ flags.set_objective
           /\ ~tvp_missing(flags, n_tvp)
           /\ ~p_missing(flags, Len(p_set_keys(p_est_list)))
           /\ \E g \in BoundGroups : bnd.lb[g] > bnd.ub[g])
             => /\ err'.msg = "Your bounds are inconsistent."
                /\ {g \in BoundGroups : bnd.lb[g] > bnd.ub[g]} \subseteq err'.names
                /\ nlp' = nlp]_vars

\* C7: the measurement-supplier check of finalization succeeds exactly when
\* a measurement supplier is registered (by set_y_fun, or the default one by
\* an earlier prepare_nlp) or meas_from_data is enabled; with neither it is
\* fatal, and with both the registered supplier is kept.
C7_MeasurementSource ==
    [][(Finalize /\ validity_error = NoErr)
          => /\ (err' = NoErr) <=> (flags.set_y_fun \/ meas_from_data)
             /\ (err' # NoErr) => (err'.msg = "You have not suppplied a measurement function."
                                   /\ nlp' = nlp /\ ~flags'.prepare_nlp)
             /\ flags.set_y_fun => y_fun' = y_fun
             /\ (~flags.set_y_fun /\ meas_from_data) => y_fun' = "default"]_vars

\* The statement of C7 as the specification has it, for a first
\* finalization: with both sources selected the check is fatal as well.
C7_ExactlyOneSource ==
    [][(Finalize /\ ~flags.prepare_nlp /\ validity_error = NoErr)
          => ((err' = NoErr) <=> (flags.set_y_fun # meas_from_data))]_vars

\* Finalization completed with the caller's supplier registered and
\* meas_from_data enabled.
C7_Witness ==
    /\ flags.setup
    /\ y_fun = "user"
    /\ meas_from_data
    /\ err = NoErr

\* The parameter buffer make_step writes for the accepted measurement y0.
StepParams(y0) ==
    [exists |-> TRUE,
     x_prev |-> opt_x_num.x[1][n_coll] * scaling.x,
     p_est_prev |-> p_est0,
     p_set |-> p_eval(p_fun, t0),
     tvp |-> tvp_eval(tvp_fun, t0),
     y_meas |-> y_eval(y_fun, t0, Append(data.y, y0), y_template)]

\* C8: when the external solve fails during make_step the error is
\* propagated and x0, p_est0, u0, z0, t0, the decision buffer and the last
\* returned estimate are as before the call, while the measurement log has
\* gained the measurement, the parameter buffer holds the values of this
\* call and the set_initial_guess flag is true.
C8_SolverFailure ==
    [][\A m \in MeasInputs :
          (flags.setup /\ WellFormed(m) /\ make_step(m[1], m[2], 0))
             => /\ err'.msg = "solver failed"
                /\ UNCHANGED <<x0, p_est0, u0, z0, t0, opt_x_num, opt_aux_num, ret, nlp>>
                /\ data' = [data EXCEPT !.y = Append(@, m[2])]
                /\ opt_p_num' = StepParams(m[2])
                /\ flags' = [flags EXCEPT !.set_initial_guess = TRUE]]_vars

\* The statement of C8 as the specification has it: the failed call
\* mutated nothing.
C8_NothingMutated ==
    [][\A m \in MeasInputs :
          (flags.setup /\ WellFormed(m) /\ make_step(m[1], m[2], 0))
             => /\ err' # NoErr
                /\ UNCHANGED <<data, opt_p_num, flags, x0, p_est0, u0, z0, t0>>]_vars

\* The solve of the second step failed after a first successful step: the
\* log holds a measurement without a state record.
C8_Witness ==
    /\ err.msg = "solver failed"
    /\ Len(data.x) = 1
    /\ Len(data.y) = 2
    /\ opt_p_num.x_prev # 0

\* C9: with the default measurement supplier, the measurement trajectory a
\* make_step that reaches the solve writes to the parameter buffer is
\* oldest-first: its last min(m, N) entries are the min(m, N) most recent
\* logged measurements, ending with the one of this call, and for m < N its
\* first N - m entries equal the oldest logged measurement.
C9_DefaultWindow ==
    [][\A mi \in MeasInputs, s \in SolverOutcomes :
          (/\ flags.setup
           /\ y_fun = "default"
           /\ WellFormed(mi)
           /\ make_step(mi[1], mi[2], s))
             => LET log == Append(data.y, mi[2])
                    m == Len(log)
                    N == n_horizon
                    w == opt_p_num'.y_meas
                    r == IF m < N THEN m ELSE N
                IN  /\ Len(w) = N
                    /\ w[N] = mi[2]
                    /\ \A j \in 1..r : w[N - r + j] = log[m - r + j]
                    /\ \A j \in 1..(N - m) : w[j] = log[1]]_vars

\* The second step of a horizon of three has written its window: the
\* oldest measurement once as padding, then the two logged measurements.
C9_Witness ==
    /\ y_fun = "default"
    /\ n_horizon = 3
    /\ Len(data.y) = 2
    /\ opt_p_num.exists
    /\ opt_p_num.y_meas = <<<<1>>, <<1>>, <<2>>>>

\* C10: the state and the parameters a successful make_step appends to the
\* log are the posterior of that step: the logged state is the returned
\* estimate, and the logged parameters are recombined from the new
\* parameter estimate.
C10_LogsPosterior ==
    [][\A m \in MeasInputs, s \in SolverOutcomes :
          (flags.setup /\ WellFormed(m) /\ s # 0 /\ make_step(m[1], m[2], s))
             => /\ Len(data'.x) = Len(data.x) + 1
                /\ data'.x[Len(data'.x)] = ret'[1]
                /\ data'.p[Len(data'.p)] = p_cat_fun(p_est0', p_eval(p_fun, t0))]_vars

\* The fields of the log that hold one record per step.
StepFields == {"y", "x", "u", "z", "p", "tvp", "time", "aux"}
\* Sequence a is an initial part of sequence b.
IsPrefix(a, b) == Len(a) <= Len(b) /\ \A i \in 1..Len(a) : b[i] = a[i]
\* Some make_step call with the current inputs.
AnyStep == \E m \in MeasInputs, s \in SolverOutcomes : make_step(m[1], m[2], s)

\* C11: after any sequence of make_step calls (successful, rejected, or
\* failing in the solve) the measurement, state, input, algebraic-state,
\* parameter, time-varying-parameter, time and auxiliary fields of the log
\* hold the same number of records, one per make_step call that returned,
\* and earlier records are never changed.
C11_OneRecordPerStep ==
    /\ [](\A f, g \in StepFields : Len(data[f]) = Len(data[g]))
    /\ [][\A f \in StepFields :
             /\ IsPrefix(data[f], data'[f])
             /\ Len(data'[f]) = Len(data[f]) + (IF AnyStep /\ err' = NoErr THEN 1 ELSE 0)]_vars

\* C12: in the n-th successful make_step the time-varying-parameter, the
\* fixed-parameter and the measurement-window supplier are queried with the
\* same anchor time (n-1)*t_step after the initial time 0, that time is the
\* timestamp logged for the step, and t0 advances by t_step once per
\* successful step and by no other call.
C12_AnchorTime ==
    /\ [][\A m \in MeasInputs, s \in SolverOutcomes :
             (flags.setup /\ WellFormed(m) /\ s # 0 /\ make_step(m[1], m[2], s))
                => LET t == Len(data.x) * t_step
                   IN  /\ t0 = t
                       /\ tvp_fun = "user" => opt_p_num'.tvp = user_tvp(t)
                       /\ p_fun = "user" => opt_p_num'.p_set = user_p(t)
                       /\ y_fun = "user" => opt_p_num'.y_meas = user_y(t)
                       /\ data'.time = Append(data.time, t)
                       /\ t0' = t + t_step]_vars
    /\ [][t0' # t0 => (AnyStep /\ err' = NoErr)]_vars

\* Two steps have succeeded with the three suppliers of the caller: the
\* second one was queried and logged with time t_step.
C12_Witness ==
    /\ tvp_fun = "user" /\ p_fun = "user" /\ y_fun = "user"
    /\ n_tvp > 0
    /\ data.time = <<0, t_step>>
    /\ t0 = 2 * t_step
    /\ opt_p_num.y_meas = user_y(t_step)
    /\ opt_p_num.tvp = user_tvp(t_step)
    /\ opt_p_num.p_set = user_p(t_step)
    /\ err = NoErr

\* C13: a make_step after finalization and before any set_initial_guess is
\* not rejected for that reason: it emits a warning, marks the initial
\* guess as set and goes on to the solve; over any sequence of calls the
\* warning is emitted at most once, and never once the initial guess is
\* marked as set.
C13_WarnsOnce ==
    /\ [](warnings <= 1)
    /\ [][\A m \in MeasInputs, s \in SolverOutcomes :
             (/\ flags.setup
              /\ ~flags.set_initial_guess
              /\ WellFormed(m)
              /\ make_step(m[1], m[2], s))
                => /\ warnings' = warnings + 1
                   /\ flags'.set_initial_guess
                   /\ opt_p_num' = StepParams(m[2])
                   /\ IF s = 0 THEN err'.msg = "solver failed"
                      ELSE err' = NoErr /\ ret' = <<opt_x_num'.x[n_horizon][n_coll] * scaling.x>>]_vars
    /\ [][flags.set_initial_guess => warnings' = warnings]_vars

\* Two steps have succeeded without a call of set_initial_guess, and one
\* warning was emitted.
C13_Witness ==
    /\ warnings = 1
    /\ Len(data.x) = 2
    /\ opt_x_num = Sol(2)
    /\ err = NoErr

\* C14: set_initial_guess is rejected without any change before
\* finalization has completed; accepted, it writes x0, u0, z0 and p_est0,
\* each divided by its scaling, to every entry of the state, input,
\* algebraic-state and estimated-parameter parts of the decision buffer,
\* sets the set_initial_guess flag, and leaves the noise and slack entries,
\* the parameter buffer, the holders, t0 and the log unchanged.
C14_InitialGuessFrame ==
    [][set_initial_guess =>
          IF ~flags.setup
          THEN err' # NoErr /\ EstimatorUnchanged
          ELSE /\ err' = NoErr
               /\ \A k \in XSteps, c \in XPoints : opt_x_num'.x[k][c] * scaling.x = x0
               /\ \A k \in ZSteps : opt_x_num'.u[k] * scaling.u = u0
               /\ \A k \in ZSteps, c \in ZPoints : opt_x_num'.z[k][c] * scaling.z = z0
               /\ \A n \in DOMAIN p_est0 : opt_x_num'.p_est[n] * scaling.p_est = p_est0[n]
               /\ DOMAIN opt_x_num'.p_est = DOMAIN p_est0
               /\ flags' = [flags EXCEPT !.set_initial_guess = TRUE]
               /\ opt_x_num'.w = opt_x_num.w
               /\ opt_x_num'.v = opt_x_num.v
               /\ opt_x_num'.eps = opt_x_num.eps
               /\ UNCHANGED <<opt_p_num, x0, u0, z0, p_est0, t0, data, nlp>>]_vars

\* set_initial_guess was called after a successful step: the state entries
\* of the buffer hold the new x0, the noise entries those of the solve.
C14_Witness ==
    /\ flags.set_initial_guess
    /\ Len(data.x) = 1
    /\ x0 # 0
    /\ \A k \in XSteps, c \in XPoints : opt_x_num.x[k][c] * scaling.x = x0
    /\ opt_x_num.w = Sol(1).w
    /\ opt_x_num.eps = Sol(1).eps
    /\ err = NoErr

\* The flags the configuration and step methods set.
ConfigFlags == {"set_objective", "set_p_fun", "set_tvp_fun", "set_y_fun",
                "set_initial_guess", "setup"}

\* C15: each of the flags set_objective, set_p_fun, set_tvp_fun, set_y_fun,
\* set_initial_guess and setup is false at construction, and over any
\* sequence of calls, rejected and failing ones included, a flag that is
\* true is never set back to false.
C15_FlagsMonotone ==
    /\ \A f \in ConfigFlags : flags[f] = FALSE
    /\ [][\A f \in ConfigFlags : flags[f] => flags'[f]]_vars

\* All six flags are true and the last call, a make_step, failed in the
\* solve.
C15_Witness ==
    /\ \A f \in ConfigFlags : flags[f]
    /\ tvp_fun = "user" /\ p_fun = "user" /\ y_fun = "user"
    /\ err.msg = "solver failed"

\* C16: once the setup flag is true, every call of set_objective (the call
\* set_default_objective ends with included) and of set_param is rejected,
\* and leaves the stage and arrival cost functions, the settings and all
\* flags unchanged.
C16_ConfigLockedAfterSetup ==
    [][(/\ flags.setup
        /\ \/ \E o \in ObjInputs : set_objective(o)
           \/ \E k \in ParamKeys, b \in BOOLEAN : set_param(k, b))
          => /\ err' # NoErr
             /\ UNCHANGED <<cost, settingVars, flags, nlp>>
             /\ EstimatorUnchanged]_vars

\* After a successful step a set_objective call was rejected for coming
\* after setup.
C16_Witness ==
    /\ flags.setup
    /\ Len(data.x) = 1
    /\ cost = [stage |-> 1, arrival |-> 1]
    /\ err.msg = "Cannot call .set_objective after .setup."

\* C17: once the setup flag is true, a call of set_p_fun or set_y_fun
\* raises a configuration error, and the supplier later make_step calls use
\* is the one in place at finalization.
C17_SuppliersLockedAfterSetup ==
    [][(/\ flags.setup
        /\ \E f \in FunInputs : set_p_fun(f) \/ set_y_fun(f))
          => /\ err' # NoErr
             /\ UNCHANGED <<p_fun, y_fun>>]_vars

\* C18: a supplier passed to set_p_fun or set_y_fun whose output carries
\* other labels than the template is rejected by the registration call
\* itself, which leaves the supplier registered before (if any) and the
\* flags unchanged.
C18_LabelMismatchRejected ==
    [][\A f \in FunInputs :
          (~f.labels_ok /\ (set_p_fun(f) \/ set_y_fun(f)))
             => /\ err' # NoErr
                /\ UNCHANGED <<p_fun, y_fun, flags>>
                /\ EstimatorUnchanged]_vars

\* A mismatching fixed-parameter supplier was rejected while the supplier
\* registered before is still in place.
C18_Witness ==
    /\ p_fun = "user"
    /\ flags.set_p_fun
    /\ ~flags.prepare_nlp
    /\ err.msg = "Incorrect output of p_fun. Use get_p_template to obtain the required structure."

\* The position of a parameter name in the model's order.
Pos(name) == CHOOSE i \in 1..Len(p_keys) : p_keys[i] = name
\* The names of sequence q are distinct and in the model's relative order.
InModelOrder(q) == \A i, j \in 1..Len(q) : i < j => Pos(q[i]) < Pos(q[j])

\* C19: for every estimation list, names the model does not declare
\* included, every parameter of the model is in exactly one of the
\* estimated and the fixed subset, each subset is in the model's order,
\* the sizes add up to the number of parameters, and p_cat_fun returns the
\* full vector in the model's order, each component from the subset that
\* owns its name.
C19_ParameterPartition ==
    /\ [](LET E == p_est_keys(p_est_list)
              F == p_set_keys(p_est_list)
          IN  /\ Range(E) = Range(p_keys) \cap p_est_list
              /\ Range(F) = Range(p_keys) \ p_est_list
              /\ InModelOrder(E) /\ InModelOrder(F)
              /\ Len(E) + Len(F) = Len(p_keys)
              /\ DOMAIN p_est0 = Range(E))
    /\ [][\A m \in MeasInputs, s \in SolverOutcomes :
             (flags.setup /\ WellFormed(m) /\ s # 0 /\ make_step(m[1], m[2], s))
                => LET full == data'.p[Len(data'.p)]
                       fixed == IF p_fun = "user" THEN user_p(t0)
                                ELSE [n \in Range(p_keys) \ p_est_list |-> 0]
                   IN  /\ Len(full) = Len(p_keys)
                       /\ \A i \in 1..Len(p_keys) :
                             full[i] = IF p_keys[i] \in p_est_list
                                       THEN p_est0[p_keys[i]]
                                       ELSE fixed[p_keys[i]]]_vars

\* With the second parameter and an undeclared name in the estimation
\* list, the second step has logged the fixed first parameter followed by
\* the estimate of the second.
C19_Witness ==
    /\ p_est_list = {"b", "c"}
    /\ p_fun = "user"
    /\ Len(data.p) = 2
    /\ data.p[2] = <<user_p(t_step)["a"], Sol(1).p_est["b"] * scaling.p_est>>

\* The number of scalar entries of a numeric decision buffer.
BufferSize(ox) ==
    Cardinality(UNION {{<<k, c>> : c \in DOMAIN ox.x[k]} : k \in DOMAIN ox.x})
    + Cardinality(UNION {{<<k, c>> : c \in DOMAIN ox.z[k]} : k \in DOMAIN ox.z})
    + Cardinality(DOMAIN ox.u) + Cardinality(DOMAIN ox.w)
    + Cardinality(DOMAIN ox.v) + Cardinality(DOMAIN ox.eps)
    + Cardinality(DOMAIN ox.p_est)

\* C20: for every horizon N >= 1, every number C >= 0 of collocation
\* points and both slack modes, the decision layout a finalization
\* assembles has (N+1)*(1+C)*n_x + N*max(C,1)*n_z + N*n_u + N*n_w + N*n_v
\* + n_eps_total + n_p_est entries, with n_eps_total the slack-entry size
\* once in single-slack mode and N times otherwise; here n_x = n_z = n_u =
\* n_w = n_v = 1 and the slack entry has size 1.
C20_LayoutDimension ==
    [][(Finalize /\ err' = NoErr)
          => LET N == n_horizon
                 C == n_coll
                 dim == (N + 1) * (1 + C) + N * (IF C > 1 THEN C ELSE 1)
                        + N + N + N + (IF single_slack THEN 1 ELSE N)
                        + Cardinality(p_est_list \cap {"a", "b"})
             IN  /\ nlp'.n_opt_x = dim
                 /\ BufferSize(opt_x_num') = dim]_vars

\* A layout without collocation points, in single-slack mode, over a
\* horizon of three steps was assembled: 4 state, 3 algebraic-state, 3
\* input, 6 noise, 1 slack and 2 parameter entries.
C20_Witness ==
    /\ nlp.exists
    /\ n_horizon = 3 /\ n_coll = 0 /\ single_slack
    /\ p_est_list = {"a", "b"}
    /\ nlp.n_opt_x = 19
    /\ BufferSize(opt_x_num) = 19

\* C21: every make_step that reaches the solve has written to the parameter
\* buffer, as previous-anchor state, the decision buffer's entry at horizon
\* step 1, final collocation point, times the state scaling, and as
\* previous-anchor parameter estimate the holder p_est0; a successful step
\* logs the same parameter buffer.
C21_PreviousAnchor ==
    [][\A m \in MeasInputs, s \in SolverOutcomes :
          (flags.setup /\ WellFormed(m) /\ make_step(m[1], m[2], s))
             => /\ opt_p_num'.exists
                /\ opt_p_num'.x_prev = opt_x_num.x[1][n_coll] * scaling.x
                /\ opt_p_num'.p_est_prev = p_est0
                /\ s # 0 => data'.opt_p_num[Len(data'.opt_p_num)] = opt_p_num']_vars

\* The second step over a horizon of two steps took its previous anchor
\* from horizon step 1 of the first solution, and its previous parameter
\* estimate from the posterior of the first step.
C21_Witness ==
    /\ n_horizon = 2
    /\ Len(data.y) = 2
    /\ Len(data.x) >= 1
    /\ p_est_list # {}
    /\ opt_p_num.exists
    /\ opt_p_num.x_prev = Sol(1).x[1][n_coll] * scaling.x
    /\ opt_p_num.p_est_prev = [n \in DOMAIN Sol(1).p_est |->
                                  Sol(1).p_est[n] * scaling.p_est]

C23_BufferFrame ==
    /\ [][(opt_x_num' # opt_x_num)
             => \/ set_initial_guess
                \/ Finalize
                \/ \E m \in MeasInputs, s \in SolverOutcomes :
                      /\ s # 0
                      /\ WellFormed(m)
                      /\ make_step(m[1], m[2], s)
                      /\ opt_x_num' = Sol(s)]_vars
    /\ [][\A m \in MeasInputs :
             (make_step(m[1], m[2], 0) /\ Len(data.x) >= 1 /\ opt_x_num = Sol(Len(data.x)))
                => opt_x_num' = Sol(Len(data.x))]_vars

\* The solve of the second step failed: the buffer it started from, and
\* left, is the solution of the first step.
C23_Witness ==
    /\ err.msg = "solver failed"
    /\ Len(data.y) = 2
    /\ Len(data.x) = 1
    /\ opt_x_num = Sol(1)
    /\ opt_p_num.x_prev = Sol(1).x[1][n_coll] * scaling.x

\* The nonlinear-constraint blocks of a constraint list that were
\* evaluated in the iteration of horizon step k.
NlBlocks(cons, k) ==
    {j \in 1..Len(cons) : cons[j].kind = "nl_cons" /\ cons[j].u = k}
\* The iteration that appended block j of a constraint list: each
\* iteration opens with its collocation equations.
AppendStep(cons, j) ==
    Cardinality({i \in 1..j : cons[i].kind = "collocation"}) - 1

\* C24: in the constraint list a finalization accumulates, for every
\* horizon step each evaluated nonlinear-constraint set (one per
\* collocation point when nl_cons_check_colloc_points is on, one when it is
\* off) is appended exactly once, with one lower-bound and one upper-bound
\* block, and the three lists have the same number of blocks.
C24_AppendedOnce ==
    [][(Finalize /\ err' = NoErr)
          => /\ Len(nlp'.cons) = Len(nlp'.cons_lb)
             /\ Len(nlp'.cons) = Len(nlp'.cons_ub)
             /\ \A k \in ZSteps :
                   LET blocks == NlBlocks(nlp'.cons, k)
                   IN  /\ Cardinality(blocks) =
                             IF nl_cons_check_colloc_points THEN n_coll ELSE 1
                       /\ \A i, j \in blocks : nlp'.cons[i] = nlp'.cons[j] => i = j
                       /\ \A j \in blocks : /\ nlp'.cons_lb[j] = "_nl_cons_lb"
                                            /\ nlp'.cons_ub[j] = "_nl_cons_ub"]_vars

\* C25: the bounds a finalization writes follow cons_check_colloc_points:
\* when it is on every state and algebraic-state entry carries the model's
\* bounds; when it is off exactly the state entries at the final
\* collocation index of steps 0..N-1 and the algebraic-state entries (k, 0)
\* carry them, and every other such entry is at -inf/+inf.
C25_BoundsFollowFlag ==
    [][(Finalize /\ err' = NoErr)
          => /\ \A k \in XSteps, c \in XPoints :
                   LET bounded == \/ cons_check_colloc_points
                                  \/ (k \in 0..(n_horizon - 1) /\ c = n_coll)
                   IN  /\ nlp'.lb_opt_x.x[k][c] = IF bounded THEN bnd.lb["x"] ELSE -Inf
                       /\ nlp'.ub_opt_x.x[k][c] = IF bounded THEN bnd.ub["x"] ELSE Inf
             /\ \A k \in ZSteps, c \in ZPoints :
                   LET bounded == cons_check_colloc_points \/ c = 0
                   IN  /\ nlp'.lb_opt_x.z[k][c] = IF bounded THEN bnd.lb["z"] ELSE -Inf
                       /\ nlp'.ub_opt_x.z[k][c] = IF bounded THEN bnd.ub["z"] ELSE Inf]_vars

\* C28: for every horizon, every number of collocation points and both
\* values of nl_cons_check_colloc_points, a finalization of a valid
\* configuration completes the accumulation loop, and every block the
\* iteration of step k appended is bound and was evaluated with the entries
\* of step k.
C28_LoopCompletes ==
    [][(/\ Finalize
        /\ validity_error = NoErr
        /\ y_source(flags, meas_from_data) # "missing")
          => /\ err'.msg # "local variable 'nl_cons_k' referenced before assignment"
             /\ flags'.prepare_nlp
             /\ \A j \in 1..Len(nlp'.cons) :
                   LET b == nlp'.cons[j]
                       k == AppendStep(nlp'.cons, j)
                   IN  /\ b.kind # "unbound"
                       /\ b.kind = "nl_cons"
                             => /\ b.u = k /\ b.tvp = k /\ b.eps = k_eps(k)
                                /\ b.x[1] \in {k, k + 1}
                                /\ b.z[1] = k]_vars

\* A cost pair in place whose functions are both built from valid
\* expressions of the same set_objective call: the pair of the most recent
\* accepted call.
AcceptedCost == cost.stage > 0 /\ cost.arrival = cost.stage

\* C26: the objective of the problem a make_step solves is built from the
\* cost functions of the most recent accepted set_objective call, also when
\* the problem was finalized in two phases with a set_objective call
\* between prepare_nlp and create_nlp.
C26_ObjectiveIsCurrent ==
    [][\A m \in MeasInputs, s \in SolverOutcomes :
          (flags.setup /\ WellFormed(m) /\ AcceptedCost /\ make_step(m[1], m[2], s))
             => nlp.obj = cost]_vars

\* C27: a set_objective call that is rejected, after a call that was
\* accepted, leaves the stored stage and arrival cost functions and the
\* set_objective flag as they were.
C27_RejectedKeepsCost ==
    [][\A o \in ObjInputsOf(1..MaxCosts) :
          (flags.set_objective /\ set_objective(o) /\ err' # NoErr)
             => UNCHANGED <<cost, flags>>]_vars
====
